---- MODULE Spec2Model ----
(***************************************************************************)
(* State-machine model of the MIDI player component (MidiPlayer.tsx), its  *)
(* seek bar (SeekBar.tsx) and the page that hosts it (Index.tsx).          *)
(*                                                                         *)
(* Time is counted in milliseconds: 0.001 s is 1, the slider step 0.01 s   *)
(* is 10.  The external transport clock (Tone.Transport) is part of the    *)
(* state: its play state, its position and the events scheduled on it.     *)
(* Every handler is one action; onPlay is two, split at its await.         *)
(***************************************************************************)
EXTENDS Integers, Sequences, FiniteSets

\* ---------------------------------------------------------------- bounds
\* The transport clock is not advanced past MaxT.
MaxT == 12
\* Event ids handed out by the transport stay below MaxEventId.
MaxEventId == 4
\* At most this many onPlay calls wait at their await at once.
MaxPendingPlay == 1

\* ------------------------------------------------------ program constants
\* duration - 0.001: the end-of-track margin of the animation-frame loop.
Eps == 1
\* step={0.01} of the slider.
SliderStep == 10
\* Math.max(0.01, duration || 0.01): the smallest slider maximum.
SliderMinMax == 10
\* useState(0.2) / baseOpacity, in percent.
BaseOpacity == 20
\* maxOpacity, in percent.
MaxOpacity == 80
\* notesInWindow * 0.1, in percent.
OpacityPerNote == 10

\* const keyboardHeight = 88, in pixels.
keyboardHeight == 88
\* const visibleSeconds = 8.
visibleSeconds == 8
\* height={520}: the height MidiPlayer gives the falling-notes view.
PlayerHeight == 520

Max(a, b) == IF a >= b THEN a ELSE b
Min(a, b) == IF a <= b THEN a ELSE b

\* --------------------------------------------------------------- inputs
Note(m, t, d, v) == [midi |-> m, time |-> t, duration |-> d, velocity |-> v]

\* The files a user can hand to the player: each is the byte content as the
\* MIDI parser sees it (parses or not, and the tracks with their notes).
FileEmpty == [name |-> "empty.mid", parses |-> TRUE, tracks |-> << <<>> >>]
FileTwoTracks ==
    [name |-> "two.mid", parses |-> TRUE,
     tracks |-> << <<Note(60, 4, 6, 80)>>, <<Note(64, 0, 5, 50)>> >>]
FileDoubled ==
    [name |-> "doubled.mid", parses |-> TRUE,
     tracks |-> << <<Note(62, 0, 5, 100)>>, <<Note(62, 0, 5, 100)>> >>]
FileCorrupt == [name |-> "bad.mid", parses |-> FALSE, tracks |-> <<>>]
Files == {FileEmpty, FileTwoTracks, FileDoubled, FileCorrupt}

VARIABLES
    \* React state of MidiPlayer
    fileName, notes, duration, isPlaying, currentTime, samplesLoaded,
    \* refs of MidiPlayer
    scheduledRef, scrubbingRef, wasPlayingRef,
    \* Tone.Transport: play state, position, scheduled events, next event id
    tstate, tseconds, events, nextId,
    \* onPlay calls suspended at `await Tone.start()`, with what each captured
    playPending,
    \* React state of Index
    backgroundOpacity,
    \* the memo of FallingPiano: the rectangles it draws
    visibleNotes,
    \* YouTube processing state of MidiPlayer
    youtubeUrl, isProcessing, processingStep, processingProgress,
    \* the processing runs started so far: each one's EventSource and download
    runs,
    \* history: the last step taken, its argument, the toast it showed, the
    \* notes it made sound, and the record of the scrub gesture in progress
    last, lastVal, lastData, toast, sounded, gesture,
    \* history: the run the last step belonged to (0: none), and the seek made
    \* on a stopped transport that nothing has overridden since
    lastRun, seek

vars == <<fileName, notes, duration, isPlaying, currentTime, samplesLoaded,
          scheduledRef, scrubbingRef, wasPlayingRef,
          tstate, tseconds, events, nextId, playPending, backgroundOpacity,
          visibleNotes, youtubeUrl, isProcessing, processingStep, processingProgress, runs,
          last, lastVal, lastData, toast, sounded, gesture, lastRun, seek>>

playerState == <<fileName, notes, duration, isPlaying, currentTime>>
transport == <<tstate, tseconds, events, nextId>>
youtube == <<youtubeUrl, isProcessing, processingStep, processingProgress, runs>>

\* A step of the player that is no part of a YouTube run.
NoYouTube == UNCHANGED youtube /\ lastRun' = 0

\* The seek record: `val` is the value a release on a stopped transport was
\* given, `play` the place in playPending of the Play pressed after it (0: not
\* pressed), `resumed` whether the last step was that Play's continuation.
\* The continuation of a Play pressed before the seek overrides it.
NoSeek == [armed |-> FALSE, val |-> 0, play |-> 0, resumed |-> FALSE]

NoGesture == [active |-> FALSE, began |-> "stopped", playing |-> FALSE, clean |-> TRUE]

\* ----------------------------------------------------------- FallingPiano
\* Pixels are counted in units of 1/PixelScale, so that every position the
\* view computes from millisecond times is a whole number.
PixelScale == visibleSeconds * 1000

\* Variant: no clipping.
clampNone(v, lo, hi) == v
\* Math.min(max, Math.max(min, v))
clamp(v, lo, hi) == Min(hi, Max(lo, v))

\* Math.max(120, height - keyboardHeight), in pixels.
laneHeight(height) == Max(120, height - keyboardHeight)

\* Variant: the speed is taken from the height of the whole component.
ppsOfHeight(height) == (height * PixelScale) \div (visibleSeconds * 1000)
\* laneHeight / visibleSeconds pixels per second, here in 1/PixelScale pixels
\* per millisecond.
pps(height) == (laneHeight(height) * PixelScale) \div (visibleSeconds * 1000)

RECURSIVE LowestMidi(_)
LowestMidi(ns) ==
    IF Len(ns) = 1 THEN ns[1].midi ELSE Min(ns[1].midi, LowestMidi(Tail(ns)))
RECURSIVE HighestMidi(_)
HighestMidi(ns) ==
    IF Len(ns) = 1 THEN ns[1].midi ELSE Max(ns[1].midi, HighestMidi(Tail(ns)))

\* The key range of the keyboard: the notes' range within 21..108, widened
\* to an octave.
minMidi(ns) == IF Len(ns) = 0 THEN 21 ELSE clamp(LowestMidi(ns), 21, 108)
maxMidi(ns) ==
    IF Len(ns) = 0 THEN 108
    ELSE IF clamp(HighestMidi(ns), 21, 108) - minMidi(ns) < 12
         THEN Min(108, minMidi(ns) + 12)
         ELSE clamp(HighestMidi(ns), 21, 108)

\* keyMap has an entry for every key from minMidi to maxMidi, and no other.
\* (The entry's x and w place the note sideways; they are left out.)
InKeyMap(m, lo, hi) == lo <= m /\ m <= hi

\* The rectangle of note n at time t: y and the clipped height.
Rect(n, t, height) ==
    LET lane == laneHeight(height) * PixelScale
        dtStart == n.time - t
        yBottom == lane - dtStart * pps(height)
        h == Max(2 * PixelScale, n.duration * pps(height))
        yTop == yBottom - h
        y == clamp(yTop, 0, lane)
    IN [n |-> n, y |-> y, h |-> clamp(yBottom, 0, lane) - y]

\* The loop body's `continue`s: no key, ended over a second ago, starting
\* more than visibleSeconds + 1 ahead, nothing left after clipping (r is the
\* note's rectangle).
Drawn(n, r, t, lo, hi) ==
    /\ InKeyMap(n.midi, lo, hi)
    /\ ~(n.time + n.duration - t < -1000)
    /\ ~(n.time - t > (visibleSeconds + 1) * 1000)
    /\ ~(r.h <= 0)

\* for (const n of notes) { ...; list.push(...) }
RECURSIVE PushVisible(_, _, _, _, _)
PushVisible(rest, t, height, lo, hi) ==
    IF rest = <<>> THEN <<>>
    ELSE LET r == Rect(Head(rest), t, height)
         IN (IF Drawn(Head(rest), r, t, lo, hi) THEN <<r>> ELSE <<>>)
            \o PushVisible(Tail(rest), t, height, lo, hi)

\* One step of the stable sort by a.y - b.y.
InsertByY(s, r) ==
    LET k == Cardinality({i \in 1..Len(s) : s[i].y <= r.y})
    IN SubSeq(s, 1, k) \o <<r>> \o SubSeq(s, k + 1, Len(s))

\* list.sort((a, b) => a.y - b.y)
RECURSIVE SortByY(_)
SortByY(s) ==
    IF s = <<>> THEN <<>>
    ELSE InsertByY(SortByY(SubSeq(s, 1, Len(s) - 1)), s[Len(s)])

\* The useMemo of visibleNotes.
ComputeVisibleNotes(ns, t, height) ==
    IF ns = <<>> THEN <<>>
    ELSE SortByY(PushVisible(ns, t, height, minMidi(ns), maxMidi(ns)))

\* Every render of MidiPlayer renders FallingPiano with its notes and its
\* currentTime; the memo is computed anew when one of them has changed.
Render ==
    IF notes' = notes /\ currentTime' = currentTime
    THEN UNCHANGED visibleNotes
    ELSE visibleNotes' = ComputeVisibleNotes(notes', currentTime', PlayerHeight)

\* History bookkeeping shared by every action.
History(name, val, data, msg, snd) ==
    /\ last' = name
    /\ lastVal' = val
    /\ lastData' = data
    /\ toast' = msg
    /\ sounded' = snd

\* The gesture record after a step that is not the first scrub event: kept
\* during a drag and at its release, forgotten by the step after the release
\* (a release that no scrub event preceded has no gesture to keep).  `control` says the
\* step is a transport-control handler (Play's continuation, Pause, Stop).
GestureAfter(control) ==
    IF scrubbingRef
    THEN [gesture EXCEPT !.clean = @ /\ ~control]
    ELSE NoGesture

Init ==
    /\ fileName = "none"
    /\ notes = <<>>
    /\ duration = 0
    /\ isPlaying = FALSE
    /\ currentTime = 0
    /\ samplesLoaded = FALSE
    /\ scheduledRef = <<>>
    /\ scrubbingRef = FALSE
    /\ wasPlayingRef = FALSE
    /\ tstate = "stopped"
    /\ tseconds = 0
    /\ events = {}
    /\ nextId = 0
    /\ playPending = <<>>
    /\ backgroundOpacity = BaseOpacity
    /\ visibleNotes = <<>>
    /\ youtubeUrl = <<>>
    /\ isProcessing = FALSE
    /\ processingStep = ""
    /\ processingProgress = 0
    /\ runs = <<>>
    /\ lastRun = 0
    /\ seek = NoSeek
    /\ last = "init"
    /\ lastVal = 0
    /\ lastData = ""
    /\ toast = ""
    /\ sounded = {}
    /\ gesture = NoGesture

\* ------------------------------------------------------------ transport
\* Tone.Transport.start(): a stopped or paused clock runs from its position.
TransportStart(st) == "started"
\* Variant: pause() leaves the clock as it is.
TransportPauseIgnored(st) == st
\* Tone.Transport.pause(): only a running clock is paused.
TransportPause(st) == IF st = "started" THEN "paused" ELSE st

\* The transport clock runs by one millisecond; the events scheduled at the
\* position it leaves fire, and each makes the sampler sound its note.  The
\* callback calls nothing else: MidiPlayer takes no props.
TransportAdvance ==
    /\ NoYouTube
    /\ seek' = NoSeek
    /\ tstate = "started"
    /\ tseconds < MaxT
    /\ tseconds' = tseconds + 1
    /\ UNCHANGED <<playerState, samplesLoaded, scheduledRef, scrubbingRef,
                   wasPlayingRef, tstate, events, nextId, playPending,
                   backgroundOpacity>>
    /\ History("advance", 0, "", "",
               {e.note : e \in {x \in events : x.note.time = tseconds}})
    /\ gesture' = GestureAfter(FALSE)
    /\ Render

\* ------------------------------------------------------------ sampler init
\* The sampler's onload callback.
SamplerLoaded ==
    /\ NoYouTube
    /\ seek' = [seek EXCEPT !.resumed = FALSE]
    /\ ~samplesLoaded
    /\ samplesLoaded' = TRUE
    /\ UNCHANGED <<playerState, scheduledRef, scrubbingRef, wasPlayingRef,
                   transport, playPending, backgroundOpacity>>
    /\ History("samplerLoaded", 0, "", "", {})
    /\ gesture' = GestureAfter(FALSE)
    /\ Render

\* ----------------------------------------------------- animation frame loop
\* Variant: the loop does not look at the scrubbing flag.
LoopAlwaysActive(scrubbing) == TRUE
\* if (!scrubbingRef.current)
LoopActive(scrubbing) == ~scrubbing
\* Variant: the end test without its margin.
AtEndNoMargin(t, dur) == dur > 0 /\ t >= dur
\* duration > 0 && t >= duration - 0.001
AtEnd(t, dur) == dur > 0 /\ t >= dur - Eps

Tick ==
    /\ NoYouTube
    /\ seek' = [seek EXCEPT !.resumed = FALSE]
    /\ IF LoopActive(scrubbingRef)
       THEN IF AtEnd(tseconds, duration)
            THEN /\ currentTime' = duration
                 /\ IF tstate = "started"
                    THEN /\ tstate' = TransportPause(tstate)
                         /\ isPlaying' = FALSE
                    ELSE UNCHANGED <<tstate, isPlaying>>
            ELSE /\ currentTime' = Max(0, tseconds)
                 /\ UNCHANGED <<tstate, isPlaying>>
       ELSE UNCHANGED <<currentTime, tstate, isPlaying>>
    /\ UNCHANGED <<fileName, notes, duration, samplesLoaded, scheduledRef,
                   scrubbingRef, wasPlayingRef, tseconds, events, nextId,
                   playPending, backgroundOpacity>>
    /\ History("tick", 0, "", "", {})
    /\ gesture' = GestureAfter(FALSE)
    /\ Render

\* ------------------------------------------------------- loadMidiFromData
\* midi.tracks.forEach(t => t.notes.forEach(n => collected.push(...)))
RECURSIVE Collect(_)
Collect(tracks) ==
    IF tracks = <<>> THEN <<>> ELSE Head(tracks) \o Collect(Tail(tracks))

\* One step of the stable sort by a.time - b.time: n goes behind every note
\* of the sorted s that does not start later.
Insert(s, n) ==
    LET k == Cardinality({i \in 1..Len(s) : s[i].time <= n.time})
    IN SubSeq(s, 1, k) \o <<n>> \o SubSeq(s, k + 1, Len(s))

\* Variant: the collected notes are left in file order.
NoSort(s) == s
\* collected.sort((a, b) => a.time - b.time)
RECURSIVE SortByTime(_)
SortByTime(s) ==
    IF s = <<>> THEN <<>>
    ELSE Insert(SortByTime(SubSeq(s, 1, Len(s) - 1)), s[Len(s)])

\* collected.reduce((acc, n) => Math.max(acc, n.time + n.duration), 0)
RECURSIVE Total(_)
Total(s) ==
    IF s = <<>> THEN 0
    ELSE Max(Total(SubSeq(s, 1, Len(s) - 1)), s[Len(s)].time + s[Len(s)].duration)

\* Variant: the try block without Transport.cancel(0) and the reset of
\* scheduledRef.
LoadSuccessKeepsSchedule(f) ==
    /\ notes' = SortByTime(Collect(f.tracks))
    /\ duration' = Total(SortByTime(Collect(f.tracks)))
    /\ fileName' = f.name
    /\ tseconds' = 0
    /\ isPlaying' = FALSE
    /\ UNCHANGED <<currentTime, samplesLoaded, scrubbingRef, wasPlayingRef,
                   tstate, events, scheduledRef, nextId, playPending,
                   backgroundOpacity>>
    /\ History("load", 0, f.name, "MIDI loaded! Ready to play.", {})

\* The try block, when new Midi(data) returns.
LoadSuccess(f) ==
    /\ notes' = SortByTime(Collect(f.tracks))
    /\ duration' = Total(SortByTime(Collect(f.tracks)))
    /\ fileName' = f.name
    /\ tseconds' = 0
    /\ events' = {}
    /\ scheduledRef' = <<>>
    /\ isPlaying' = FALSE
    /\ UNCHANGED <<currentTime, samplesLoaded, scrubbingRef, wasPlayingRef,
                   tstate, nextId, playPending, backgroundOpacity>>
    /\ History("load", 0, f.name, "MIDI loaded! Ready to play.", {})

\* Variant: the transport is reset before the data is parsed.
LoadFailureResets(f) ==
    /\ tseconds' = 0
    /\ events' = {}
    /\ scheduledRef' = <<>>
    /\ isPlaying' = FALSE
    /\ UNCHANGED <<fileName, notes, duration, currentTime, samplesLoaded,
                   scrubbingRef, wasPlayingRef, tstate, nextId, playPending,
                   backgroundOpacity>>
    /\ History("load", 0, f.name, "Failed to load MIDI file.", {})

\* The catch block, when new Midi(data) throws.
LoadFailure(f) ==
    /\ UNCHANGED <<playerState, samplesLoaded, scheduledRef, scrubbingRef,
                   wasPlayingRef, transport, playPending, backgroundOpacity>>
    /\ History("load", 0, f.name, "Failed to load MIDI file.", {})

\* Called when the chosen file's bytes have been read (onFileSelected) or the
\* transcribed file has been downloaded.
loadMidiFromData(f) ==
    /\ IF f.parses THEN LoadSuccess(f) ELSE LoadFailure(f)
    /\ gesture' = GestureAfter(FALSE)
    /\ seek' = NoSeek
    /\ Render

\* The chosen file's bytes have been read.
onFileSelected(f) ==
    /\ loadMidiFromData(f)
    /\ NoYouTube

\* ------------------------------------------------------------ scheduleNotes
\* Transport.cancel(0), then one Transport.schedule per note of the notes the
\* callback closed over; the ids go to scheduledRef in order.
\* (synthRef is set from mount to unmount, so the early return is not taken;
\* the first conjunct of scheduleNotes is the bound on event ids.)
ScheduledEvents(ns) == {[id |-> nextId + i - 1, note |-> ns[i]] : i \in 1..Len(ns)}
ScheduledIds(ns) == [i \in 1..Len(ns) |-> nextId + i - 1]

scheduleNotes(ns) ==
    /\ nextId + Len(ns) <= MaxEventId
    /\ events' = ScheduledEvents(ns)
    /\ scheduledRef' = ScheduledIds(ns)
    /\ nextId' = nextId + Len(ns)

\* ------------------------------------------------------------------ onPlay
\* Variant: the empty note list is not noticed.
NeverNoNotes(ns) == FALSE
\* if (!notes.length) { toast(...); return; }
NoNotes(ns) == Len(ns) = 0

\* The Play button is rendered while !isPlaying.  The handler runs up to
\* `await Tone.start()`, keeping the samplesLoaded and the scheduleNotes
\* (hence the notes) of the render it was created in.  Play and Stop are
\* disabled while a YouTube run is processing.
onPlay ==
    /\ NoYouTube
    /\ seek' = IF seek.armed /\ seek.play = 0 /\ notes # <<>>
               THEN [seek EXCEPT !.play = Len(playPending) + 1, !.resumed = FALSE]
               ELSE [seek EXCEPT !.resumed = FALSE]
    /\ ~isPlaying
    /\ ~isProcessing
    /\ IF NoNotes(notes)
       THEN /\ UNCHANGED playPending
            /\ History("onPlay", 0, "", "Please upload a .mid file first", {})
       ELSE /\ Len(playPending) < MaxPendingPlay
            /\ playPending' = Append(playPending,
                   [samplesLoaded |-> samplesLoaded, notes |-> notes])
            /\ History("onPlay", 0, "", "", {})
    /\ UNCHANGED <<playerState, samplesLoaded, scheduledRef, scrubbingRef,
                   wasPlayingRef, transport, backgroundOpacity>>
    /\ gesture' = GestureAfter(FALSE)
    /\ Render

\* Variant: Play on a stopped transport rewinds to 0 before it schedules.
onPlayResumeRewinds ==
    /\ playPending # <<>>
    /\ NoYouTube
    /\ seek' = IF seek.play # 1 /\ Head(playPending).samplesLoaded
               THEN NoSeek
               ELSE [seek EXCEPT !.play = IF @ > 0 THEN @ - 1 ELSE 0,
                                 !.resumed = (seek.play = 1)]
    /\ LET p == Head(playPending) IN
       IF ~p.samplesLoaded
       THEN /\ UNCHANGED <<playerState, scheduledRef, transport>>
            /\ History("onPlayResume", 0, "", "Loading piano samples...", {})
            /\ gesture' = GestureAfter(FALSE)
       ELSE /\ IF tstate = "stopped"
               THEN scheduleNotes(p.notes) /\ tseconds' = 0
               ELSE UNCHANGED <<events, scheduledRef, nextId, tseconds>>
            /\ tstate' = TransportStart(tstate)
            /\ isPlaying' = TRUE
            /\ UNCHANGED <<fileName, notes, duration, currentTime>>
            /\ History("onPlayResume", 0, "", "", {})
            /\ gesture' = GestureAfter(TRUE)
    /\ playPending' = Tail(playPending)
    /\ UNCHANGED <<samplesLoaded, scrubbingRef, wasPlayingRef, backgroundOpacity>>
    /\ Render

\* The rest of onPlay, after the await.
onPlayResume ==
    /\ playPending # <<>>
    /\ NoYouTube
    /\ seek' = IF seek.play # 1 /\ Head(playPending).samplesLoaded
               THEN NoSeek
               ELSE [seek EXCEPT !.play = IF @ > 0 THEN @ - 1 ELSE 0,
                                 !.resumed = (seek.play = 1)]
    /\ LET p == Head(playPending) IN
       IF ~p.samplesLoaded
       THEN /\ UNCHANGED <<playerState, scheduledRef, transport>>
            /\ History("onPlayResume", 0, "", "Loading piano samples...", {})
            /\ gesture' = GestureAfter(FALSE)
       ELSE /\ IF tstate = "stopped"
               THEN scheduleNotes(p.notes)
               ELSE UNCHANGED <<events, scheduledRef, nextId>>
            /\ tstate' = TransportStart(tstate)
            /\ isPlaying' = TRUE
            /\ UNCHANGED <<fileName, notes, duration, currentTime, tseconds>>
            /\ History("onPlayResume", 0, "", "", {})
            /\ gesture' = GestureAfter(TRUE)
    /\ playPending' = Tail(playPending)
    /\ UNCHANGED <<samplesLoaded, scrubbingRef, wasPlayingRef, backgroundOpacity>>
    /\ Render

\* ----------------------------------------------------------- onPause, onStop
\* The Pause button is rendered while isPlaying.
onPause ==
    /\ NoYouTube
    /\ seek' = NoSeek
    /\ isPlaying
    /\ tstate' = TransportPause(tstate)
    /\ isPlaying' = FALSE
    /\ UNCHANGED <<fileName, notes, duration, currentTime, samplesLoaded,
                   scheduledRef, scrubbingRef, wasPlayingRef, tseconds, events,
                   nextId, playPending, backgroundOpacity>>
    /\ History("onPause", 0, "", "", {})
    /\ gesture' = GestureAfter(TRUE)
    /\ Render

\* Variant: Stop pauses the transport where it is.
onStopPauses ==
    /\ NoYouTube
    /\ seek' = NoSeek
    /\ ~isProcessing
    /\ tstate' = TransportPause(tstate)
    /\ currentTime' = 0
    /\ isPlaying' = FALSE
    /\ UNCHANGED <<fileName, notes, duration, samplesLoaded, scheduledRef,
                   scrubbingRef, wasPlayingRef, tseconds, events, nextId,
                   playPending, backgroundOpacity>>
    /\ History("onStop", 0, "", "", {})
    /\ gesture' = GestureAfter(TRUE)
    /\ Render

onStop ==
    /\ NoYouTube
    /\ seek' = NoSeek
    /\ ~isProcessing
    /\ tstate' = "stopped"
    /\ tseconds' = 0
    /\ currentTime' = 0
    /\ isPlaying' = FALSE
    /\ UNCHANGED <<fileName, notes, duration, samplesLoaded, scheduledRef,
                   scrubbingRef, wasPlayingRef, events, nextId, playPending,
                   backgroundOpacity>>
    /\ History("onStop", 0, "", "", {})
    /\ gesture' = GestureAfter(TRUE)
    /\ Render

\* ----------------------------------------------------------------- seek bar
\* Math.max(0.01, duration || 0.01)
SliderMax(dur) == Max(SliderMinMax, IF dur = 0 THEN SliderMinMax ELSE dur)
\* The values the slider reports: multiples of its step from 0 up to its max.
SliderValues(dur) == {v \in 0..SliderMax(dur) : v % SliderStep = 0}

handleScrub(val) ==
    /\ NoYouTube
    /\ seek' = NoSeek
    /\ IF ~scrubbingRef
       THEN /\ scrubbingRef' = TRUE
            /\ wasPlayingRef' = isPlaying
            /\ IF isPlaying
               THEN /\ tstate' = TransportPause(tstate)
                    /\ isPlaying' = FALSE
               ELSE UNCHANGED <<tstate, isPlaying>>
            /\ gesture' = [active |-> TRUE, began |-> tstate,
                           playing |-> isPlaying, clean |-> TRUE]
       ELSE /\ UNCHANGED <<scrubbingRef, wasPlayingRef, tstate, isPlaying>>
            /\ gesture' = GestureAfter(FALSE)
    /\ currentTime' = val
    /\ UNCHANGED <<fileName, notes, duration, samplesLoaded, scheduledRef,
                   tseconds, events, nextId, playPending, backgroundOpacity>>
    /\ History("handleScrub", val, "", "", {})
    /\ Render

\* Variant: the slider value is used as it comes.
TargetUnclamped(val, dur) == val
\* Math.min(Math.max(0, val), duration || 0)
Target(val, dur) == Min(Max(0, val), dur)
\* Variant: the release always starts the transport.
ResumeAlways(was) == TRUE
\* if (wasPlayingRef.current)
ResumeAfterScrub(was) == was

handleScrubEnd(val) ==
    /\ NoYouTube
    /\ seek' = IF tstate = "stopped" /\ ~ResumeAfterScrub(wasPlayingRef)
               THEN [armed |-> TRUE, val |-> val, play |-> 0, resumed |-> FALSE]
               ELSE NoSeek
    /\ tseconds' = Target(val, duration)
    /\ IF tstate = "stopped"
       THEN scheduleNotes(notes)
       ELSE UNCHANGED <<events, scheduledRef, nextId>>
    /\ IF ResumeAfterScrub(wasPlayingRef)
       THEN /\ tstate' = TransportStart(tstate)
            /\ isPlaying' = TRUE
       ELSE UNCHANGED <<tstate, isPlaying>>
    /\ scrubbingRef' = FALSE
    /\ currentTime' = Target(val, duration)
    /\ UNCHANGED <<fileName, notes, duration, samplesLoaded, wasPlayingRef,
                   playPending, backgroundOpacity>>
    /\ History("handleScrubEnd", val, "", "", {})
    /\ gesture' = GestureAfter(FALSE)
    /\ Render

\* -------------------------------------------------------------------- Index
\* handleNoteTrigger: the opacity for n note timestamps in the window.
handleNoteTrigger(n) == BaseOpacity + Min(n * OpacityPerNote, MaxOpacity - BaseOpacity)

Next ==
    \/ SamplerLoaded
    \/ TransportAdvance
    \/ Tick
    \/ \E f \in Files : onFileSelected(f)
    \/ onPlay
    \/ onPlayResume
    \/ onPause
    \/ onStop
    \/ \E v \in SliderValues(duration) : handleScrub(v)
    \/ \E v \in SliderValues(duration) : handleScrubEnd(v)

Spec == Init /\ [][Next]_vars

\* ===================================================================== claims
ToastLoaded == "MIDI loaded! Ready to play."
ToastLoadFailed == "Failed to load MIDI file."
ToastNoFile == "Please upload a .mid file first"
ToastSamples == "Loading piano samples..."

\* The file whose data the last load was given.
LastFile == CHOOSE f \in Files : f.name = lastData

\* C1: after handleScrubEnd(v) the transport position and currentTime are both
\* v clamped into [0, duration] (0 when duration is 0) and the scrubbing flag
\* is cleared, whatever the transport state.
C1_ScrubEndSeeks ==
    last = "handleScrubEnd" =>
        LET v == lastVal
            clamped == IF duration = 0 \/ v < 0 THEN 0
                       ELSE IF v > duration THEN duration ELSE v
        IN /\ tseconds = clamped
           /\ currentTime = clamped
           /\ ~scrubbingRef

\* C1 witness: a release past the end of a running track was clamped.
C1_Witness ==
    /\ last = "handleScrubEnd"
    /\ lastVal > duration
    /\ duration > 0
    /\ tstate = "started"

\* C2 (as stated): playback running at the start of a gesture is paused for
\* the whole drag, and after the release the transport is started exactly when
\* it was started when the gesture began.
C2_AsStated ==
    /\ (scrubbingRef /\ gesture.playing) => tstate # "started"
    /\ (last = "handleScrubEnd" /\ gesture.active) =>
           /\ gesture.playing => tstate = "started"
           /\ (tstate = "started") <=> (gesture.began = "started")

\* C2 (amended): the same, for every gesture during which no transport-control
\* handler (the continuation of Play, Pause, Stop) runs.
C2_UninterruptedGesture ==
    /\ (scrubbingRef /\ gesture.playing /\ gesture.clean) => tstate = "paused"
    /\ (last = "handleScrubEnd" /\ gesture.active /\ gesture.playing) =>
           tstate = "started"
    /\ (last = "handleScrubEnd" /\ gesture.active /\ gesture.clean) =>
           (tstate = "started") <=> (gesture.began = "started")

\* C2 witness: a gesture begun while playing has been released and playback
\* runs again.
C2_Witness ==
    /\ last = "handleScrubEnd"
    /\ gesture.active
    /\ gesture.clean
    /\ gesture.playing
    /\ tstate = "started"
    /\ isPlaying

\* C3: during a scrub gesture an animation-frame tick leaves currentTime,
\* isPlaying and the transport unchanged, and every scrub event sets
\* currentTime to the value it was given.
C3_TickIdleWhileScrubbing ==
    [][/\ (scrubbingRef /\ last' = "tick") =>
              UNCHANGED <<currentTime, isPlaying, tstate, tseconds>>
       /\ last' = "handleScrub" => currentTime' = lastVal'
      ]_vars

\* C3 witness: a tick during a drag, with the display away from the clock.
C3_Witness ==
    /\ scrubbingRef
    /\ last = "tick"
    /\ currentTime # tseconds
    /\ duration > 0

\* C4: a tick outside a scrub gesture with duration > 0 and transport time t:
\* when t >= duration - 0.001, currentTime becomes duration and a started
\* transport is paused with isPlaying false; otherwise currentTime becomes
\* max(0, t).  Either way 0 <= currentTime <= duration afterwards.
C4_TickClampsToEnd ==
    [][(last' = "tick" /\ ~scrubbingRef /\ duration > 0) =>
          /\ IF tseconds >= duration - Eps
             THEN /\ currentTime' = duration
                  /\ tstate = "started" => (tstate' = "paused" /\ ~isPlaying')
                  /\ tstate # "started" => UNCHANGED <<tstate, isPlaying>>
             ELSE /\ currentTime' = (IF tseconds < 0 THEN 0 ELSE tseconds)
                  /\ UNCHANGED <<tstate, isPlaying>>
          /\ 0 <= currentTime'
          /\ currentTime' <= duration
      ]_vars

\* C4 witness: a tick found the clock inside the end margin and ended playback.
C4_Witness ==
    /\ last = "tick"
    /\ ~scrubbingRef
    /\ duration > 0
    /\ tseconds = duration - Eps
    /\ currentTime = duration
    /\ tstate = "paused"

\* C5: Play with an empty note list, or with samples that had not loaded when
\* it was pressed, only shows a notice: the transport, the scheduled events
\* and isPlaying are left alone.
C5_PlayRefused ==
    [][/\ (last' = "onPlay" /\ notes = <<>>) =>
              /\ toast' = ToastNoFile
              /\ ~isPlaying'
              /\ UNCHANGED <<tstate, tseconds, events, scheduledRef, nextId,
                             isPlaying, playPending>>
       /\ (/\ last' = "onPlayResume"
           /\ playPending # <<>>
           /\ ~Head(playPending).samplesLoaded) =>
              /\ toast' = ToastSamples
              /\ UNCHANGED <<tstate, tseconds, events, scheduledRef, nextId,
                             isPlaying>>
      ]_vars

\* C5 witness: Play was pressed on a loaded file before the samples arrived.
C5_Witness ==
    /\ last = "onPlayResume"
    /\ toast = ToastSamples
    /\ notes # <<>>
    /\ tstate = "stopped"
    /\ ~isPlaying

\* C6: a load whose data does not parse shows the error toast and leaves
\* notes, duration, fileName, isPlaying, currentTime, the transport and the
\* scheduled events as they were.
C6_FailedLoadChangesNothing ==
    [][(last' = "load" /\ \E f \in Files : f.name = lastData' /\ ~f.parses) =>
          /\ toast' = ToastLoadFailed
          /\ UNCHANGED <<notes, duration, fileName, isPlaying, currentTime,
                         tstate, tseconds, events, scheduledRef>>
      ]_vars

\* C6 witness: a corrupt file was handed over during playback.
C6_Witness ==
    /\ last = "load"
    /\ toast = ToastLoadFailed
    /\ isPlaying
    /\ events # {}
    /\ tseconds > 0

\* How often x occurs in the sequence s, and in the tracks of file f.
Occurrences(s, x) == Cardinality({i \in DOMAIN s : s[i] = x})
FileOccurrences(f, x) ==
    Cardinality(UNION {{<<t, i>> : i \in {j \in DOMAIN f.tracks[t] : f.tracks[t][j] = x}}
                       : t \in DOMAIN f.tracks})
FileNotes(f) == UNION {{f.tracks[t][i] : i \in DOMAIN f.tracks[t]} : t \in DOMAIN f.tracks}

\* C7: after a successful load notes holds every note of every track exactly
\* once, in non-decreasing order of start time, and duration is the largest
\* time + duration (0 without notes); always, every note ends by duration.
C7_LoadedNotes ==
    /\ (last = "load" /\ toast = ToastLoaded) =>
           /\ \A x \in FileNotes(LastFile) \cup {notes[i] : i \in DOMAIN notes} :
                  Occurrences(notes, x) = FileOccurrences(LastFile, x)
           /\ \A i, j \in DOMAIN notes : i < j => notes[i].time <= notes[j].time
           /\ IF notes = <<>> THEN duration = 0
              ELSE /\ \E i \in DOMAIN notes : duration = notes[i].time + notes[i].duration
                   /\ \A i \in DOMAIN notes : notes[i].time + notes[i].duration <= duration
    /\ \A i \in DOMAIN notes : notes[i].time + notes[i].duration <= duration

\* C7 witness: the file whose tracks are out of time order has been loaded.
C7_Witness ==
    /\ last = "load"
    /\ toast = ToastLoaded
    /\ lastData = FileTwoTracks.name
    /\ Len(notes) = 2

\* C8: a successful load puts the transport at 0, leaves no scheduled event
\* and no scheduled id, and sets isPlaying to false.
C8_LoadResetsTransport ==
    (last = "load" /\ toast = ToastLoaded) =>
        /\ tseconds = 0
        /\ events = {}
        /\ scheduledRef = <<>>
        /\ ~isPlaying

\* C8 witness: a file was loaded while another was playing.
C8_Witness ==
    /\ last = "load"
    /\ toast = ToastLoaded
    /\ tstate = "started"
    /\ nextId > 0

\* C9: Stop leaves the transport stopped at 0, currentTime 0 and isPlaying
\* false, and does not change notes, duration or fileName.
C9_StopResets ==
    [][last' = "onStop" =>
          /\ tstate' = "stopped"
          /\ tseconds' = 0
          /\ currentTime' = 0
          /\ ~isPlaying'
          /\ UNCHANGED <<notes, duration, fileName>>
      ]_vars

\* C9 witness: Stop was pressed on a loaded, scheduled track.
C9_Witness ==
    /\ last = "onStop"
    /\ notes # <<>>
    /\ events # {}

\* C10 (as stated): whenever a note has just sounded, the background opacity
\* is above its base value.
C10_BackgroundReacts ==
    sounded # {} => backgroundOpacity > BaseOpacity

\* The events on the transport are one per note of the list ns, each with an
\* id of its own, and scheduledRef holds exactly their ids.
EventsMatch(evs, ids, ns) ==
    /\ Cardinality(evs) = Len(ns)
    /\ \A x \in {e.note : e \in evs} \cup {ns[i] : i \in DOMAIN ns} :
           Cardinality({e \in evs : e.note = x}) = Occurrences(ns, x)
    /\ {e.id : e \in evs} = {ids[i] : i \in DOMAIN ids}
    /\ Len(ids) = Len(ns)

\* C14: a seek to v on a stopped transport followed by Play (notes non-empty,
\* samples loaded) schedules every note of the current list and starts
\* playback at v clamped to [0, duration], not at 0.
C14_SeekThenPlay ==
    (last = "onPlayResume" /\ toast = "" /\ seek.armed /\ seek.resumed) =>
        /\ tstate = "started"
        /\ isPlaying
        /\ tseconds = (IF seek.val > duration THEN duration
                       ELSE IF seek.val < 0 THEN 0 ELSE seek.val)
        /\ EventsMatch(events, scheduledRef, notes)

\* C14 witness: playback was started from a position other than 0 that a seek
\* on the stopped transport had set.
C14_Witness ==
    /\ last = "onPlayResume"
    /\ toast = ""
    /\ seek.armed
    /\ seek.resumed
    /\ seek.val > 0
    /\ tseconds > 0
    /\ tstate = "started"

\* C15 (as stated): every call of scheduleNotes, from Play and from seek-end,
\* drops the events scheduled before and leaves exactly one event per note of
\* the current note list.
C15_ScheduleMatchesNotes ==
    [][(last' \in {"onPlayResume", "handleScrubEnd"} /\ toast' = ""
          /\ tstate = "stopped") =>
          /\ EventsMatch(events', scheduledRef', notes')
          /\ \A e \in events' : e.id >= nextId
      ]_vars

\* ------------------------------------------------- uninterrupted playback
\* The files with duration > 0.
PlaybackFiles == {f \in Files : f.parses /\ Total(SortByTime(Collect(f.tracks))) > 0}

\* Playback has just been started: the state onPlay's continuation leaves
\* when the file is loaded, the samples are loaded and the stopped transport
\* stood at position s (0, or where a seek had put it).
InitPlayback ==
    \E f \in PlaybackFiles, s \in 0..MaxT :
        LET ns == SortByTime(Collect(f.tracks)) IN
        /\ s <= Total(ns)
        /\ fileName = f.name
        /\ notes = ns
        /\ duration = Total(ns)
        /\ isPlaying = TRUE
        /\ currentTime = s
        /\ samplesLoaded = TRUE
        /\ scheduledRef = [i \in 1..Len(ns) |-> i - 1]
        /\ scrubbingRef = FALSE
        /\ wasPlayingRef = FALSE
        /\ tstate = "started"
        /\ tseconds = s
        /\ events = {[id |-> i - 1, note |-> ns[i]] : i \in 1..Len(ns)}
        /\ nextId = Len(ns)
        /\ playPending = <<>>
        /\ backgroundOpacity = BaseOpacity
        /\ visibleNotes = ComputeVisibleNotes(ns, s, PlayerHeight)
        /\ youtubeUrl = <<>>
        /\ isProcessing = FALSE
        /\ processingStep = ""
        /\ processingProgress = 0
        /\ runs = <<>>
        /\ lastRun = 0
        /\ seek = NoSeek
        /\ last = "onPlayResume"
        /\ lastVal = 0
        /\ lastData = ""
        /\ toast = ""
        /\ sounded = {}
        /\ gesture = NoGesture

\* No user action: only the transport clock and the animation frames run.
NextPlayback ==
    \/ TransportAdvance
    \/ Tick

\* The audio clock keeps running while the transport is started, and every
\* frame callback requests the next frame.
SpecPlayback ==
    /\ InitPlayback
    /\ [][NextPlayback]_vars
    /\ WF_vars(TransportAdvance)
    /\ WF_vars(Tick)

\* C16: for a track with duration > 0, once playback is started and no user
\* action follows, fair transport advance and frame ticks lead to isPlaying
\* false, the transport paused and currentTime = duration, for good.
C16_PlaybackEnds ==
    <>[](~isPlaying /\ tstate = "paused" /\ currentTime = duration)

\* C16 witness: a tick has ended the playback of a track with duration > 0.
C16_Witness ==
    /\ last = "tick"
    /\ duration > 0
    /\ ~isPlaying
    /\ tstate = "paused"
    /\ currentTime = duration
    /\ tseconds >= duration - Eps

\* ------------------------------------------------ the falling-notes view
\* The seek bar is dragged to multiples of half a second, up to
\* MaxFallingSteps of them.
MaxFallingSteps == 24
FallingTimes == {k * 500 : k \in 0..MaxFallingSteps}

\* Notes on a key outside the piano's range (20) and inside it, starting at
\* 0 s, 4 s and 8.5 s, of no length, one second and nine seconds.
FallingNotes ==
    {Note(m, t, d, 100) : m \in {20, 60}, t \in {0, 4000, 8500}, d \in {0, 1000, 9000}}
FallingThree ==
    <<Note(60, 0, 1000, 100), Note(62, 4000, 9000, 100), Note(64, 10500, 1000, 100)>>
FallingScores ==
    {<<a>> : a \in FallingNotes}
        \cup {<<p[1], p[2]>> : p \in {q \in FallingNotes \X FallingNotes : q[1].time < q[2].time}}
        \cup {FallingThree}
FallingFiles ==
    {[name |-> "falling.mid", parses |-> TRUE, tracks |-> <<sc>>] : sc \in FallingScores}

\* The player with files whose notes are seconds apart: a file is loaded,
\* the seek bar is dragged, and FallingPiano is rendered with the result.
NextFalling ==
    \/ \E f \in FallingFiles : onFileSelected(f)
    \/ \E v \in {t \in FallingTimes : t <= SliderMax(duration) /\ t % SliderStep = 0} :
           handleScrub(v)
SpecFalling == Init /\ [][NextFalling]_vars

\* C11 (positions in 1/8000 pixels, times in milliseconds): a drawn note that
\* has not started yet has its bottom edge at
\* laneHeight - (time - currentTime) * laneHeight / 8, which is laneHeight / 8
\* pixels lower for every second that passes; a note starting now is drawn with
\* its bottom edge on the keyboard line y = laneHeight, a later one above it,
\* and the bottom edge of a note starting 8 seconds ahead is at y = 0.
C11_FallingSpeed ==
    LET lane == laneHeight(PlayerHeight) IN
    /\ \A i \in DOMAIN visibleNotes :
           LET e == visibleNotes[i]
               dt == e.n.time - currentTime
           IN /\ dt >= 0 => e.y + e.h = lane * 8 * 1000 - dt * lane
              /\ (e.y + e.h = lane * 8 * 1000) <=> (dt <= 0)
    /\ \A i \in DOMAIN notes :
           /\ (notes[i].time = currentTime /\ InKeyMap(notes[i].midi, minMidi(notes), maxMidi(notes)))
                  => \E j \in DOMAIN visibleNotes : visibleNotes[j].n = notes[i]
           /\ notes[i].time - currentTime = 8 * 1000
                  => LET r == Rect(notes[i], currentTime, PlayerHeight) IN r.y + r.h = 0

\* C11 witness: one note is drawn on the keyboard line as it starts, another
\* is drawn on its way down.
C11_Witness ==
    /\ last = "handleScrub"
    /\ \E i, j \in DOMAIN visibleNotes :
           /\ visibleNotes[i].n.time = currentTime
           /\ visibleNotes[i].y + visibleNotes[i].h = laneHeight(PlayerHeight) * PixelScale
           /\ visibleNotes[j].n.time > currentTime
           /\ visibleNotes[j].y + visibleNotes[j].h > 0

\* The top edge of note n's rectangle before clipping, in 1/8000 pixels:
\* its bottom edge less its height of at least 2 pixels.
UnclippedTop(n, t) ==
    (laneHeight(PlayerHeight) * 8 * 1000 - (n.time - t) * laneHeight(PlayerHeight))
        - Max(2 * 8 * 1000, n.duration * laneHeight(PlayerHeight))

\* C17: every rectangle of visibleNotes has 0 <= y, h > 0 and
\* y + h <= laneHeight; a note starting 8 seconds or more after currentTime
\* has no rectangle, nor has one whose rectangle would lie entirely at or
\* below the keyboard line.
C17_Clipped ==
    LET lane == laneHeight(PlayerHeight) * 8 * 1000 IN
    /\ \A i \in DOMAIN visibleNotes :
           /\ 0 <= visibleNotes[i].y
           /\ visibleNotes[i].h > 0
           /\ visibleNotes[i].y + visibleNotes[i].h <= lane
    /\ \A i \in DOMAIN notes :
           (notes[i].time - currentTime >= 8 * 1000 \/ UnclippedTop(notes[i], currentTime) >= lane)
               => \A j \in DOMAIN visibleNotes : visibleNotes[j].n # notes[i]

\* C17 witness: of three notes on the keyboard, one is past the keyboard
\* line, one is drawn cut off at the top of the lane, and one starts more
\* than 8 seconds ahead.
C17_Witness ==
    /\ last = "handleScrub"
    /\ Len(notes) = 3
    /\ Len(visibleNotes) = 1
    /\ visibleNotes[1].y = 0
    /\ visibleNotes[1].y + visibleNotes[1].h < laneHeight(PlayerHeight) * PixelScale
    /\ UnclippedTop(visibleNotes[1].n, currentTime) < 0
    /\ \E i \in DOMAIN notes : notes[i].time - currentTime >= 8 * 1000
    /\ \E i \in DOMAIN notes :
           UnclippedTop(notes[i], currentTime) >= laneHeight(PlayerHeight) * 8 * 1000

\* ------------------------------------------------------ YouTube processing
\* At most MaxRuns processing runs are started.
MaxRuns == 2

\* What is typed into the URL field: characters, a blank among them.
UrlInputs == {<<>>, <<" ">>, <<"a">>, <<" ", "a", " ">>}

\* Variant: the URL is tested as typed.
TrimNone(u) == u
\* String.prototype.trim(): the blanks at both ends are dropped.
RECURSIVE Trim(_)
Trim(u) ==
    IF u = <<>> THEN <<>>
    ELSE IF Head(u) = " " THEN Trim(Tail(u))
    ELSE IF u[Len(u)] = " " THEN Trim(SubSeq(u, 1, Len(u) - 1))
    ELSE u

\* What the processing server reports: data.step with data.progress (absent:
\* 0), and data.message of an error (absent: "").
ProgressReports == {[step |-> "Downloading", progress |-> 0],
                    [step |-> "Transcribing", progress |-> 50]}
ErrorMessages == {"", "Video unavailable"}

\* A step of a YouTube run leaves the player as it is.
PlayerUntouched ==
    /\ UNCHANGED <<playerState, samplesLoaded, scheduledRef, scrubbingRef,
                   wasPlayingRef, transport, playPending, backgroundOpacity>>
    /\ gesture' = GestureAfter(FALSE)
    /\ seek' = [seek EXCEPT !.resumed = FALSE]
    /\ Render

\* eventSource.close() of run r.
Closed(r) == [runs EXCEPT ![r].stream = "closed"]

\* onChange of the URL field, which is disabled while a run is processing.
setYoutubeUrl(u) ==
    /\ ~isProcessing
    /\ u # youtubeUrl
    /\ youtubeUrl' = u
    /\ UNCHANGED <<isProcessing, processingStep, processingProgress, runs>>
    /\ lastRun' = 0
    /\ History("setYoutubeUrl", 0, "", "", {})
    /\ PlayerUntouched

\* The handler of the Process button.  (new EventSource does not throw for
\* the URL built here, so the catch block is not reached.)
processYouTubeUrl ==
    /\ IF Trim(youtubeUrl) = <<>>
       THEN /\ UNCHANGED youtube
            /\ lastRun' = 0
            /\ History("processYouTubeUrl", 0, "", "Please enter a YouTube URL", {})
       ELSE /\ Len(runs) < MaxRuns
            /\ isProcessing' = TRUE
            /\ processingStep' = "Initializing..."
            /\ processingProgress' = 0
            /\ runs' = Append(runs, [stream |-> "open", download |-> "none"])
            /\ UNCHANGED youtubeUrl
            /\ lastRun' = Len(runs) + 1
            /\ History("processYouTubeUrl", 0, "", "", {})
    /\ PlayerUntouched

\* The Process button: disabled={isProcessing || !youtubeUrl.trim()}.
ProcessClick ==
    /\ ~isProcessing
    /\ Trim(youtubeUrl) # <<>>
    /\ processYouTubeUrl

\* onmessage with data.type === 'progress'.
onmessageProgress(r, d) ==
    /\ runs[r].stream = "open"
    /\ processingStep' = d.step
    /\ processingProgress' = d.progress
    /\ UNCHANGED <<youtubeUrl, isProcessing, runs>>
    /\ lastRun' = r
    /\ History("onmessageProgress", 0, "", "", {})
    /\ PlayerUntouched

\* onmessage with data.type === 'complete': the download is started, the
\* stream stays open.  (The server completes a run once.)
onmessageComplete(r) ==
    /\ runs[r].stream = "open"
    /\ runs[r].download = "none"
    /\ runs' = [runs EXCEPT ![r].download = "pending"]
    /\ UNCHANGED <<youtubeUrl, isProcessing, processingStep, processingProgress>>
    /\ lastRun' = r
    /\ History("onmessageComplete", 0, "", "", {})
    /\ PlayerUntouched

\* onmessage with data.type === 'error'.
onmessageError(r, msg) ==
    /\ runs[r].stream = "open"
    /\ isProcessing' = FALSE
    /\ runs' = Closed(r)
    /\ UNCHANGED <<youtubeUrl, processingStep, processingProgress>>
    /\ lastRun' = r
    /\ History("onmessageError", 0, "",
               IF msg = "" THEN "Processing failed" ELSE msg, {})
    /\ PlayerUntouched

\* eventSource.onerror.
onerror(r) ==
    /\ runs[r].stream = "open"
    /\ isProcessing' = FALSE
    /\ runs' = Closed(r)
    /\ UNCHANGED <<youtubeUrl, processingStep, processingProgress>>
    /\ lastRun' = r
    /\ History("onerror", 0, "", "Connection lost to processing server", {})
    /\ PlayerUntouched

\* The download resolves with the bytes f: fetch resolves whatever the
\* status of the response, so f need not be a MIDI file.
DownloadResolved(r, f) ==
    /\ runs[r].download = "pending"
    /\ loadMidiFromData(f)
    /\ isProcessing' = FALSE
    /\ youtubeUrl' = <<>>
    /\ runs' = [Closed(r) EXCEPT ![r].download = "done"]
    /\ UNCHANGED <<processingStep, processingProgress>>
    /\ lastRun' = r

\* The download rejects: the .catch of the fetch chain.
DownloadRejected(r) ==
    /\ runs[r].download = "pending"
    /\ isProcessing' = FALSE
    /\ runs' = [Closed(r) EXCEPT ![r].download = "done"]
    /\ UNCHANGED <<youtubeUrl, processingStep, processingProgress>>
    /\ lastRun' = r
    /\ History("downloadRejected", 0, "", "Failed to download processed MIDI", {})
    /\ PlayerUntouched

NextYouTube ==
    \/ \E u \in UrlInputs : setYoutubeUrl(u)
    \/ ProcessClick
    \/ \E r \in DOMAIN runs, d \in ProgressReports : onmessageProgress(r, d)
    \/ \E r \in DOMAIN runs : onmessageComplete(r)
    \/ \E r \in DOMAIN runs, msg \in ErrorMessages : onmessageError(r, msg)
    \/ \E r \in DOMAIN runs : onerror(r)
    \/ \E r \in DOMAIN runs, f \in Files : DownloadResolved(r, f)
    \/ \E r \in DOMAIN runs : DownloadRejected(r)
SpecYouTube == Init /\ [][NextYouTube]_vars

\* The handler called whatever the URL field holds.
NextYouTubeDirect ==
    \/ \E u \in UrlInputs : setYoutubeUrl(u)
    \/ processYouTubeUrl
    \/ \E r \in DOMAIN runs, d \in ProgressReports : onmessageProgress(r, d)
    \/ \E r \in DOMAIN runs : onmessageComplete(r)
    \/ \E r \in DOMAIN runs, msg \in ErrorMessages : onmessageError(r, msg)
    \/ \E r \in DOMAIN runs : onerror(r)
    \/ \E r \in DOMAIN runs, f \in Files : DownloadResolved(r, f)
    \/ \E r \in DOMAIN runs : DownloadRejected(r)
SpecYouTubeDirect == Init /\ [][NextYouTubeDirect]_vars

\* The error toasts of a processing run.
RunErrorToasts ==
    {"Processing failed", "Connection lost to processing server",
     "Failed to download processed MIDI"} \cup (ErrorMessages \ {""})

\* C12 (as stated): the step that handles a terminal event of a run (an
\* 'error' message, a connection error, the download succeeding or failing)
\* leaves isProcessing false and the run's stream closed; after a successful
\* download the MIDI is loaded and the URL field is empty; on the failure
\* paths an error toast is shown and the URL field is as it was.
C12_RunEnds ==
    [][/\ (lastRun' > 0 /\ last' \in {"onmessageError", "onerror", "downloadRejected"}) =>
              /\ ~isProcessing'
              /\ runs'[lastRun'].stream = "closed"
              /\ toast' \in RunErrorToasts
              /\ youtubeUrl' = youtubeUrl
       /\ (lastRun' > 0 /\ last' = "load") =>
              /\ ~isProcessing'
              /\ runs'[lastRun'].stream = "closed"
              /\ toast' = ToastLoaded
              /\ fileName' = lastData'
              /\ youtubeUrl' = <<>>
      ]_vars

\* The URL is empty or blanks only.
Blank(u) == \A i \in DOMAIN u : u[i] = " "

\* C13: processYouTubeUrl called while the URL is empty or blanks only shows
\* "Please enter a YouTube URL" and changes nothing: isProcessing, the runs
\* and their streams, processingStep, processingProgress, the URL and the
\* player are as before.
C13_BlankUrlOnlyToasts ==
    [][(last' = "processYouTubeUrl" /\ Blank(youtubeUrl)) =>
          /\ toast' = "Please enter a YouTube URL"
          /\ UNCHANGED <<youtubeUrl, isProcessing, processingStep,
                         processingProgress, runs>>
          /\ UNCHANGED <<playerState, transport, scheduledRef, samplesLoaded>>
      ]_vars

\* C13 witness: the handler has refused a URL of blanks while nothing was
\* processing.
C13_Witness ==
    /\ last = "processYouTubeUrl"
    /\ toast = "Please enter a YouTube URL"
    /\ youtubeUrl = <<" ">>
    /\ ~isProcessing
====
